---- MODULE Spec2Model ----
(***************************************************************************)
(* Model of the Self-Hosting Hub API (src/app/main.py): a FastAPI service  *)
(* over three MongoDB collections (guides, categories, subscribers).       *)
(*                                                                         *)
(* A collection is a sequence of documents in the store's natural          *)
(* (insertion) order.  A document is a record; payload fields that no      *)
(* handler reads (description, icon, updated_at, content) are left out.    *)
(* An ObjectId is [kind |-> "oid", v |-> n]; str(ObjectId) is the value    *)
(* [kind |-> "str", v |-> n], which is a different value of the store: a   *)
(* query for the string does not match the ObjectId.                       *)
(***************************************************************************)
EXTENDS Integers, Sequences, FiniteSets

VARIABLES guides, categories, subscribers, next_oid, now,
          requests, proc, seed, overlap, get, response

vars == <<guides, categories, subscribers, next_oid, now,
          requests, proc, seed, overlap, get, response>>

(* ------------------------------ bounds ------------------------------- *)

\* Guides in a pre-populated store.
MaxGuides == 3
\* Tags in one guide of a pre-populated store.
MaxTags == 2
\* Categories in a pre-populated store.
MaxCategories == 2
\* Largest created_at in a pre-populated store.
MaxTime == 2
\* Last reading of the clock in one run.
MaxClock == 1
\* Largest limit passed to GET /guides/latest.
MaxLimit == 3
\* Subscribe requests received in one run.
MaxRequests == 2
\* Processes started in one run.
MaxStartups == 2

(* ------------------------------ values ------------------------------- *)

ObjectId(n) == [kind |-> "oid", v |-> n]

\* str(ObjectId): the hexadecimal string of the id, a string and no ObjectId.
Str(oid) == [kind |-> "str", v |-> oid.v]

\* A field the document does not have.
Absent == [kind |-> "absent", v |-> 0]

Tag(name, color) == [name |-> name, color |-> color]

Min(a, b) == IF a <= b THEN a ELSE b

\* All sequences over S of length at most n.
SeqUpTo(S, n) == UNION {[1..k -> S] : k \in 0..n}

(* ------------------------- document store ---------------------------- *)

\* A query filter is a record of required field values; {} accepts every
\* document.  A document without the field does not match.
EmptyFilter == <<>>

Matches(doc, filter) ==
    \A f \in DOMAIN filter : f \in DOMAIN doc /\ doc[f] = filter[f]

\* collection.count_documents(filter).
CountDocuments(coll, filter) ==
    Cardinality({i \in 1..Len(coll) : Matches(coll[i], filter)})

\* What find_one returns when nothing matches (None).
NoDoc == [found |-> FALSE]

\* collection.find_one(filter): the first match in natural order, or None.
FindOne(coll, filter) ==
    LET hits == {i \in 1..Len(coll) : Matches(coll[i], filter)}
    IN  IF hits = {} THEN NoDoc
        ELSE [found |-> TRUE,
              doc |-> coll[CHOOSE i \in hits : \A j \in hits : i <= j]]

\* The document as stored: the driver adds a fresh _id.
Stored(doc, n) ==
    [x \in (DOMAIN doc) \cup {"_id"} |-> IF x = "_id" THEN ObjectId(n) ELSE doc[x]]

\* collection.insert_one(doc): the collection afterwards.
InsertOne(coll, doc, n) == Append(coll, Stored(doc, n))

\* collection.insert_many(docs): each document gets a fresh _id, in order.
InsertMany(coll, docs, first) ==
    coll \o [i \in 1..Len(docs) |-> Stored(docs[i], first + i - 1)]

RECURSIVE SortedOrdersAscending(_, _)
\* SortedOrders with the direction of the sort reversed (sort("created_at", 1)).
SortedOrdersAscending(coll, left) ==
    IF left = {} THEN {<<>>}
    ELSE UNION { {<<coll[i]>> \o rest : rest \in SortedOrdersAscending(coll, left \ {i})}
                 : i \in {m \in left :
                            \A j \in left : coll[m].created_at <= coll[j].created_at} }

RECURSIVE SortedOrders(_, _)
\* The orders in which the documents of coll at the positions in left can
\* follow one another with created_at non-increasing: a document with the
\* greatest created_at first, any one of them when several have it.
SortedOrders(coll, left) ==
    IF left = {} THEN {<<>>}
    ELSE UNION { {<<coll[i]>> \o rest : rest \in SortedOrders(coll, left \ {i})}
                 : i \in {m \in left :
                            \A j \in left : coll[m].created_at >= coll[j].created_at} }

\* The orders cursor.sort("created_at", -1) may deliver.  The store does not
\* say which of two documents with equal created_at comes first.
SortCreatedAtDesc(coll) == SortedOrders(coll, 1..Len(coll))

\* cursor.limit(n) for n >= 0.  MongoDB reads a limit of 0 as "no limit".
Limit(docs, n) == IF n = 0 THEN docs ELSE SubSeq(docs, 1, Min(n, Len(docs)))

(* ---------------------- aggregation pipeline ------------------------- *)

RECURSIVE Unwind(_)
\* {"$unwind": "$tags"}: one output document per element of tags, in order,
\* with tags replaced by that element; a document with no tags yields none.
Unwind(coll) ==
    IF coll = <<>> THEN <<>>
    ELSE LET d == Head(coll)
             ts == IF "tags" \in DOMAIN d THEN d.tags ELSE <<>>
         IN  [k \in 1..Len(ts) |-> [d EXCEPT !.tags = ts[k]]] \o Unwind(Tail(coll))

RECURSIVE GroupByTag(_, _)
\* GroupByTagName with the whole tag as the key ({"_id": "$tags"}).
GroupByTag(docs, seen) ==
    IF docs = <<>> THEN seen
    ELSE LET key == Head(docs).tags
         IN  IF \E k \in 1..Len(seen) : seen[k]._id = key
             THEN GroupByTag(Tail(docs), seen)
             ELSE GroupByTag(Tail(docs), Append(seen, [_id |-> key]))

RECURSIVE GroupByTagName(_, _)
\* {"$group": {"_id": "$tags.name"}}: one output document per distinct name;
\* seen holds the groups opened so far.
GroupByTagName(docs, seen) ==
    IF docs = <<>> THEN seen
    ELSE LET key == Head(docs).tags.name
         IN  IF \E k \in 1..Len(seen) : seen[k]._id = key
             THEN GroupByTagName(Tail(docs), seen)
             ELSE GroupByTagName(Tail(docs), Append(seen, [_id |-> key]))

\* {"$count": "count"}: one document holding the number of input documents,
\* and no document at all when there is no input.
CountStage(docs) == IF docs = <<>> THEN <<>> ELSE <<[count |-> Len(docs)]>>

\* cursor.to_list(n).
ToList(docs, n) == SubSeq(docs, 1, Min(n, Len(docs)))

\* get_unique_technologies_count.
get_unique_technologies_count(coll) ==
    LET result == ToList(CountStage(GroupByTagName(Unwind(coll), <<>>)), 1)
    IN  IF result # <<>> THEN result[1].count ELSE 0

\* get_guide_count and get_category_count.
get_guide_count(coll) == CountDocuments(coll, EmptyFilter)

get_category_count(coll) == CountDocuments(coll, EmptyFilter)

(* ----------------------------- models -------------------------------- *)

\* EmailStr, on a raw input given as its sequence of characters: exactly one
\* "@", something before it, and after it a domain of non-empty labels with
\* at least one period.
EmailStrValid(raw) ==
    \E a \in 2..(Len(raw) - 3) :
        /\ raw[a] = "@"
        /\ \A i \in 1..Len(raw) : i # a => raw[i] # "@"
        /\ \E d \in (a + 2)..(Len(raw) - 1) : raw[d] = "."
        /\ raw[a + 1] # "." /\ raw[Len(raw)] # "."
        /\ \A i \in (a + 1)..(Len(raw) - 1) : ~(raw[i] = "." /\ raw[i + 1] = ".")

\* The raw email inputs of the subscribe requests:
\* a@x.de, b@x.de, not-an-email.
RawEmails ==
    { <<"a", "@", "x", ".", "d", "e">>,
      <<"b", "@", "x", ".", "d", "e">>,
      <<"n", "o", "t", "-", "a", "n", "-", "e", "m", "a", "i", "l">> }

(* ---------------------------- seed data ------------------------------ *)

\* The two guides startup inserts; t1 and t2 are the clock readings taken
\* while the list is built.
SeedGuides(t1, t2) ==
    << [title |-> "Nextcloud mit Redis & MySQL",
        tags |-> <<Tag("Docker", "blue"), Tag("MySQL", "green"), Tag("Redis", "red")>>,
        featured |-> TRUE,
        created_at |-> t1],
       [title |-> "Sicherheit mit Fail2Ban",
        tags |-> <<Tag("Sicherheit", "gray"), Tag("Ubuntu", "yellow")>>,
        featured |-> FALSE,
        created_at |-> t2] >>

\* The three categories startup inserts.
SeedCategories ==
    << [name |-> "Cloud & Storage"], [name |-> "Datenbanken"], [name |-> "Container"] >>

(* ------------------------ pre-populated stores ----------------------- *)

\* A guide that was in the store before this run.
GuideDoc(n, tags, featured, t) ==
    [_id |-> ObjectId(n), title |-> "Guide", tags |-> tags,
     featured |-> featured, created_at |-> t]

\* The same document carrying the undeclared field category_id.
WithCategory(doc, ref) ==
    [x \in (DOMAIN doc) \cup {"category_id"} |->
        IF x = "category_id" THEN ref ELSE doc[x]]

CategoryDoc(n) == [_id |-> ObjectId(n), name |-> "Category"]

\* The _id of the i-th guide and of the j-th category of such a store.
GuideOid(i) == 100 + i

CategoryOid(j) == 200 + j

TagNames == {"Docker", "MySQL"}

\* Stores whose guides differ in their tag lists (names may repeat within a
\* guide and across guides; the colour differs from guide to guide).
TagStores ==
    { [i \in 1..Len(c) |->
         GuideDoc(GuideOid(i),
                  [k \in 1..Len(c[i]) |->
                     Tag(c[i][k], IF i % 2 = 1 THEN "blue" ELSE "green")],
                  FALSE, 0)]
      : c \in SeqUpTo(SeqUpTo(TagNames, MaxTags), MaxGuides) }

\* Stores whose guides differ in featured and created_at.
GuideStores ==
    { [i \in 1..Len(c) |-> GuideDoc(GuideOid(i), <<>>, c[i][1], c[i][2])]
      : c \in SeqUpTo(BOOLEAN \X (0..MaxTime), MaxGuides) }

\* What a guide's category_id may hold: the id string of a category (the
\* last one names no stored category), or the ObjectId itself.
CategoryRefs ==
    {Str(ObjectId(CategoryOid(j))) : j \in 1..(MaxCategories + 1)}
      \cup {ObjectId(CategoryOid(j)) : j \in 1..MaxCategories}

\* Stores whose guides differ in category_id (a guide may have none).
CategoryRefStores ==
    { [i \in 1..Len(c) |->
         IF c[i] = Absent THEN GuideDoc(GuideOid(i), <<>>, FALSE, 0)
         ELSE WithCategory(GuideDoc(GuideOid(i), <<>>, FALSE, 0), c[i])]
      : c \in SeqUpTo(CategoryRefs \cup {Absent}, MaxGuides) }

CategoryStores == { [j \in 1..n |-> CategoryDoc(CategoryOid(j))] : n \in 0..MaxCategories }

(* ------------------------------ state -------------------------------- *)

\* The processes of the deployment; each runs the startup hook once.
Procs == 1..MaxStartups

NoResponse == [op |-> "none", status |-> 0, body |-> <<>>]

\* No GET request is between two of its store calls.
NoGet == [op |-> "none"]

\* The part of the state that is the same in every initial state: no request
\* received, the clock and the id generator at rest, and every process
\* either not yet started (pc "idle") or serving (pc "up").
InitRest(pc) ==
    /\ subscribers = <<>>
    /\ next_oid = 1
    /\ now = 0
    /\ requests = <<>>
    /\ proc = [p \in Procs |-> pc]
    /\ seed = [p \in Procs |-> <<>>]
    /\ overlap = FALSE
    /\ get = NoGet
    /\ response = NoResponse

\* A deployment about to start its first process, on a database that is
\* fresh or already holds a guide, a category, or both.
Init ==
    /\ guides \in {<<>>, <<GuideDoc(GuideOid(1), <<Tag("Docker", "blue")>>, FALSE, 0)>>}
    /\ categories \in {<<>>, <<CategoryDoc(CategoryOid(1))>>}
    /\ InitRest("idle")

\* Running processes on a populated database.
InitStats ==
    /\ guides \in TagStores
    /\ categories = <<>>
    /\ InitRest("up")

InitGuides ==
    /\ guides \in GuideStores
    /\ categories = <<>>
    /\ InitRest("up")

InitCategories ==
    /\ guides \in CategoryRefStores
    /\ categories \in CategoryStores
    /\ InitRest("up")

\* A process has finished its startup hook.
Started == \E p \in Procs : proc[p] = "up"

\* Requests are served by a process that has started; another process may
\* run its startup hook meanwhile.
Serving == Started

\* A process is between two store calls of its startup hook.
InStartup(p) == proc[p] \notin {"idle", "up"}

(* ----------------------------- startup -------------------------------- *)
(* startup_db_client awaits four store calls; each is a step of its own,   *)
(* and the hooks of different processes interleave at them.  The list of   *)
(* seed guides, with its clock readings, is built after count_documents    *)
(* has returned and before insert_many is sent: a step between the two.    *)

\* Process p enters the hook with its first call; processes start in the
\* order of their numbers.  overlap records that a hook was entered while
\* another was running.
StartupEnter(p) ==
    /\ proc[p] = "idle"
    /\ \A q \in Procs : q < p => proc[q] # "idle"
    /\ overlap' = (overlap \/ \E q \in Procs : InStartup(q))

\* StartupCountGuides without the test that the collection is empty.
StartupCountGuidesUnguarded(p) ==
    /\ StartupEnter(p)
    /\ proc' = [proc EXCEPT ![p] = "build_guides"]
    /\ UNCHANGED <<guides, categories, subscribers, next_oid, now,
                   requests, get, response, seed>>

\* await db.guides.count_documents({}) == 0
StartupCountGuides(p) ==
    /\ StartupEnter(p)
    /\ proc' = [proc EXCEPT ![p] = IF CountDocuments(guides, EmptyFilter) = 0
                                   THEN "build_guides" ELSE "count_categories"]
    /\ UNCHANGED <<guides, categories, subscribers, next_oid, now,
                   requests, get, response, seed>>

\* The argument of insert_many: the list of the two guides is built, the
\* clock read for each of them, before the call is sent to the store.
StartupBuildGuides(p) ==
    /\ proc[p] = "build_guides"
    /\ \E t2 \in now..Min(now + 1, MaxClock) :
          /\ seed' = [seed EXCEPT ![p] = SeedGuides(now, t2)]
          /\ now' = t2
    /\ proc' = [proc EXCEPT ![p] = "insert_guides"]
    /\ UNCHANGED <<guides, categories, subscribers, next_oid,
                   requests, overlap, get, response>>

\* await db.guides.insert_many([...]): the list built before lands.
StartupInsertGuides(p) ==
    /\ proc[p] = "insert_guides"
    /\ guides' = InsertMany(guides, seed[p], next_oid)
    /\ next_oid' = next_oid + Len(seed[p])
    /\ proc' = [proc EXCEPT ![p] = "count_categories"]
    /\ UNCHANGED <<categories, subscribers, now, requests, seed,
                   overlap, get, response>>

\* await db.categories.count_documents({}) == 0
StartupCountCategories(p) ==
    /\ proc[p] = "count_categories"
    /\ proc' = [proc EXCEPT ![p] = IF CountDocuments(categories, EmptyFilter) = 0
                                   THEN "insert_categories" ELSE "up"]
    /\ UNCHANGED <<guides, categories, subscribers, next_oid, now,
                   requests, overlap, get, response, seed>>

\* await db.categories.insert_many([...])
StartupInsertCategories(p) ==
    /\ proc[p] = "insert_categories"
    /\ categories' = InsertMany(categories, SeedCategories, next_oid)
    /\ next_oid' = next_oid + 3
    /\ proc' = [proc EXCEPT ![p] = "up"]
    /\ UNCHANGED <<guides, subscribers, now, requests, overlap, get, response, seed>>

(* --------------------------- GET handlers ------------------------------ *)
(* response is the answer to the GET request received last; get holds what *)
(* a handler with several store calls has read so far.  One GET request is *)
(* followed at a time: GET handlers write nothing, so they do not affect   *)
(* one another.                                                            *)

\* {**doc, "id": str(doc["_id"])}
WithId(doc) ==
    [x \in (DOMAIN doc) \cup {"id"} |-> IF x = "id" THEN Str(doc._id) ELSE doc[x]]

\* Stats(...) with the two collection counts exchanged.
get_stats_swapped(g, c, t) == [guides |-> c, categories |-> g, technologies |-> t]

\* GET /stats: the answer built from the results of the three store calls.
get_stats(g, c, t) == [guides |-> g, categories |-> c, technologies |-> t]

\* guides=await get_guide_count()
GetStatsGuides ==
    /\ Serving
    /\ get = NoGet
    /\ get' = [op |-> "stats", step |-> 1, guides |-> get_guide_count(guides)]
    /\ response' = NoResponse
    /\ UNCHANGED <<guides, categories, subscribers, next_oid, now,
                   requests, proc, overlap, seed>>

\* categories=await get_category_count()
GetStatsCategories ==
    /\ get.op = "stats"
    /\ get.step = 1
    /\ get' = [op |-> "stats", step |-> 2, guides |-> get.guides,
               categories |-> get_category_count(categories)]
    /\ UNCHANGED <<guides, categories, subscribers, next_oid, now,
                   requests, proc, overlap, response, seed>>

\* technologies=await get_unique_technologies_count(), and the answer
GetStatsTechnologies ==
    /\ get.op = "stats"
    /\ get.step = 2
    /\ response' = [op |-> "stats", status |-> 200,
                    body |-> get_stats(get.guides, get.categories,
                                       get_unique_technologies_count(guides))]
    /\ get' = NoGet
    /\ UNCHANGED <<guides, categories, subscribers, next_oid, now,
                   requests, proc, overlap, seed>>

\* get_featured_guide with find_one({}): the first guide, featured or not.
get_featured_guide_any(gs) ==
    LET guide == FindOne(gs, EmptyFilter)
    IN  IF ~guide.found
        THEN [op |-> "featured", status |-> 404, body |-> "No featured guide found"]
        ELSE [op |-> "featured", status |-> 200, body |-> WithId(guide.doc)]

\* GET /guides/featured (one store call)
get_featured_guide(gs) ==
    LET guide == FindOne(gs, [featured |-> TRUE])
    IN  IF ~guide.found
        THEN [op |-> "featured", status |-> 404, body |-> "No featured guide found"]
        ELSE [op |-> "featured", status |-> 200, body |-> WithId(guide.doc)]

GetFeaturedGuide ==
    /\ Serving
    /\ get = NoGet
    /\ response' = get_featured_guide(guides)
    /\ UNCHANGED <<guides, categories, subscribers, next_oid, now,
                   requests, proc, overlap, get, seed>>

\* The entry of a category with the guides counted by the category's
\* ObjectId (category["_id"] in place of str(category["_id"])).
category_entry_by_oid(category, gs) ==
    LET guide_count == CountDocuments(gs, [category_id |-> category._id])
    IN  [x \in (DOMAIN category) \cup {"id", "guide_count"} |->
           IF x = "id" THEN Str(category._id)
           ELSE IF x = "guide_count" THEN guide_count
           ELSE category[x]]

\* One pass of the loop of get_categories: count the guides of the category
\* and build its entry.
category_entry(category, gs) ==
    LET guide_count == CountDocuments(gs, [category_id |-> Str(category._id)])
    IN  [x \in (DOMAIN category) \cup {"id", "guide_count"} |->
           IF x = "id" THEN Str(category._id)
           ELSE IF x = "guide_count" THEN guide_count
           ELSE category[x]]

\* GET /categories: db.categories.find(), whose first batch holds the whole
\* collection.
GetCategoriesFind ==
    /\ Serving
    /\ get = NoGet
    /\ get' = [op |-> "categories", found |-> categories, out |-> <<>>]
    /\ response' = NoResponse
    /\ UNCHANGED <<guides, categories, subscribers, next_oid, now,
                   requests, proc, overlap, seed>>

\* await db.guides.count_documents(...) for the next category, and append
GetCategoriesCount ==
    /\ get.op = "categories"
    /\ Len(get.out) < Len(get.found)
    /\ get' = [get EXCEPT !.out =
                  Append(@, category_entry(get.found[Len(get.out) + 1], guides))]
    /\ UNCHANGED <<guides, categories, subscribers, next_oid, now,
                   requests, proc, overlap, response, seed>>

\* return categories
GetCategoriesReturn ==
    /\ get.op = "categories"
    /\ Len(get.out) = Len(get.found)
    /\ response' = [op |-> "categories", status |-> 200, body |-> get.out]
    /\ get' = NoGet
    /\ UNCHANGED <<guides, categories, subscribers, next_oid, now,
                   requests, proc, overlap, seed>>

\* GET /guides/latest?limit=n (one query): what the handler returns when
\* the cursor delivers the guides in the order sorted.
get_latest_guides(sorted, limit) ==
    LET cursor == Limit(sorted, limit)
    IN  [k \in 1..Len(cursor) |-> WithId(cursor[k])]

\* The value of limit when the request gives none.
DefaultLimit == 2

GetLatestGuides ==
    /\ Serving
    /\ get = NoGet
    /\ \E sorted \in SortCreatedAtDesc(guides) :
        \E given \in BOOLEAN :
          \E limit \in IF given THEN 0..MaxLimit ELSE {DefaultLimit} :
            response' = [op |-> "latest", status |-> 200, limit |-> limit,
                         given |-> given, body |-> get_latest_guides(sorted, limit)]
    /\ UNCHANGED <<guides, categories, subscribers, next_oid, now,
                   requests, proc, overlap, get, seed>>

(* ----------------------- POST /newsletter/subscribe -------------------- *)

\* What insert_one returns: the _id the driver gave the document.
InsertOneResult(n) == [inserted_id |-> ObjectId(n)]

\* Python truth of an id: None is false, an ObjectId is true.
Truthy(v) == v.kind # "none"

\* The requests that have been answered.
Done == {r \in 1..Len(requests) : requests[r].pc = "done"}

\* A request as received: subscriber is the document the handler has built
\* (none yet), after holds the requests answered before it came.
Request(raw, pc, status, calls) ==
    [email |-> raw, pc |-> pc, status |-> status, calls |-> calls,
     subscriber |-> NoDoc, after |-> Done]

\* SubscribeCall without the test for an existing subscriber.
SubscribeCallNoLookup(raw) ==
    IF ~EmailStrValid(raw)
    THEN Request(raw, "done", 422, <<>>)
    ELSE Request(raw, "build", 0, <<"find_one">>)

\* SubscribeCall with the parameter declared str: nothing is validated.
SubscribeCallNoValidation(raw) ==
    IF FindOne(subscribers, [email |-> raw]).found
    THEN Request(raw, "done", 400, <<"find_one">>)
    ELSE Request(raw, "build", 0, <<"find_one">>)

\* The request up to the end of its first store call.  The framework rejects
\* a malformed email with 422 before the handler runs; otherwise the handler
\* runs find_one and answers 400 if a subscriber has that email.
SubscribeCall(raw) ==
    IF ~EmailStrValid(raw)
    THEN Request(raw, "done", 422, <<>>)
    ELSE IF FindOne(subscribers, [email |-> raw]).found
         THEN Request(raw, "done", 400, <<"find_one">>)
         ELSE Request(raw, "build", 0, <<"find_one">>)

Subscribe ==
    /\ Serving
    /\ Len(requests) < MaxRequests
    /\ \E raw \in RawEmails : requests' = Append(requests, SubscribeCall(raw))
    /\ UNCHANGED <<guides, categories, subscribers, next_oid, now,
                   proc, overlap, get, response, seed>>

\* The status after insert_one returned result.
InsertStatus(result) == IF ~Truthy(result.inserted_id) THEN 500 ELSE 201

\* subscriber = {...}: find_one has returned None; the handler builds the
\* document, reading the clock, before it sends insert_one to the store.
SubscribeBuild ==
    \E r \in 1..Len(requests) :
        /\ requests[r].pc = "build"
        /\ requests' = [requests EXCEPT
                          ![r].pc = "insert",
                          ![r].subscriber = [email |-> requests[r].email,
                                             subscribed_at |-> now]]
        /\ UNCHANGED <<guides, categories, subscribers, next_oid, now,
                       proc, seed, overlap, get, response>>

\* The rest of the request: insert_one lands, then the answer.
SubscribeInsert ==
    \E r \in 1..Len(requests) :
        /\ requests[r].pc = "insert"
        /\ subscribers' = InsertOne(subscribers, requests[r].subscriber, next_oid)
        /\ next_oid' = next_oid + 1
        /\ requests' = [requests EXCEPT
                          ![r].pc = "done",
                          ![r].status = InsertStatus(InsertOneResult(next_oid)),
                          ![r].calls = Append(@, "insert_one")]
        /\ UNCHANGED <<guides, categories, now, proc, overlap, get, response, seed>>

(* ------------------------------ clock --------------------------------- *)

Tick ==
    /\ now < MaxClock
    /\ now' = now + 1
    /\ UNCHANGED <<guides, categories, subscribers, next_oid,
                   requests, proc, overlap, get, response, seed>>

(* -------------------------- specifications ---------------------------- *)

Startup ==
    \E p \in Procs :
        \/ StartupCountGuides(p)
        \/ StartupBuildGuides(p)
        \/ StartupInsertGuides(p)
        \/ StartupCountCategories(p)
        \/ StartupInsertCategories(p)

NextStats == GetStatsGuides \/ GetStatsCategories \/ GetStatsTechnologies

NextCategories == GetCategoriesFind \/ GetCategoriesCount \/ GetCategoriesReturn

NextGuides == GetFeaturedGuide \/ GetLatestGuides

Next ==
    \/ Startup
    \/ Subscribe
    \/ SubscribeBuild
    \/ SubscribeInsert
    \/ NextStats
    \/ NextCategories
    \/ NextGuides
    \/ Tick

\* The whole service.
Spec == Init /\ [][Next]_vars

\* The parts of the service that share state, each with the handlers that
\* read or write that state.

\* The startup hooks and the subscribe requests (all the writers), and the
\* clock they read.
NextWriters == Startup \/ Subscribe \/ SubscribeBuild \/ SubscribeInsert \/ Tick

SpecWriters == Init /\ [][NextWriters]_vars

\* The startup hooks on a database that is empty when the first process
\* starts, and the handlers that read what they seed.
InitFresh ==
    /\ guides = <<>>
    /\ categories = <<>>
    /\ InitRest("idle")

NextSeed == Startup \/ NextStats \/ NextCategories \/ GetFeaturedGuide \/ Tick

SpecSeed == InitFresh /\ [][NextSeed]_vars

\* The subscribe requests of a running deployment.
InitRunning ==
    /\ guides \in {<<>>, <<GuideDoc(GuideOid(1), <<Tag("Docker", "blue")>>, FALSE, 0)>>}
    /\ categories \in {<<>>, <<CategoryDoc(CategoryOid(1))>>}
    /\ InitRest("up")

NextSubscribe == Subscribe \/ SubscribeBuild \/ SubscribeInsert \/ Tick

SpecSubscribe == InitRunning /\ [][NextSubscribe]_vars

\* GET /stats over stores of tagged guides.
SpecStats == InitStats /\ [][NextStats]_vars

\* GET /guides/featured and GET /guides/latest over stores of dated guides.
SpecGuides == InitGuides /\ [][NextGuides]_vars

\* GET /categories over stores of categories and guides that refer to them.
SpecCategories == InitCategories /\ [][NextCategories]_vars

(* ------------------------------ claims -------------------------------- *)

\* C1: the subscribers collection never holds two records with the same
\* email, whatever the interleaving of the subscribe requests.
C1_UniqueEmails ==
    \A i, j \in 1..Len(subscribers) :
        i # j => subscribers[i].email # subscribers[j].email

\* C2: of two subscribe requests with the same well-formed email, the second
\* received after the first was answered: the first request for an email
\* that no subscriber has is answered 201, and a request received after a
\* 201 for its email is answered 400 without an insert.
C2_SecondSubscribeRejected ==
    /\ \A i \in Done :
          (/\ EmailStrValid(requests[i].email)
           /\ \A k \in 1..(i - 1) : requests[k].email # requests[i].email)
          => requests[i].status = 201
    /\ \A j \in 1..Len(requests) : \A i \in requests[j].after :
          (requests[i].email = requests[j].email /\ requests[i].status = 201)
          => /\ requests[j].pc = "done"
             /\ requests[j].status = 400
             /\ requests[j].calls = <<"find_one">>

C2_Witness ==
    \E j \in 1..Len(requests) : \E i \in requests[j].after :
        /\ requests[i].email = requests[j].email
        /\ requests[i].status = 201
        /\ requests[j].status = 400

\* The distinct tag names in the tag lists of all guides.
DistinctTagNames(gs) ==
    UNION { {gs[i].tags[k].name : k \in 1..Len(gs[i].tags)} : i \in 1..Len(gs) }

\* C3: technologies in the answer of GET /stats is the number of distinct
\* tag names over all guides (0 without guides or without tags; a name in
\* several guides, or several times in one, counts once).
C3_TechnologiesDistinctNames ==
    response.op = "stats" =>
        response.body.technologies = Cardinality(DistinctTagNames(guides))

C3_Witness ==
    /\ response.op = "stats"
    /\ response.body.technologies = 2
    /\ Len(guides) = 3
    /\ guides[1].tags = <<Tag("Docker", "blue"), Tag("Docker", "blue")>>
    /\ guides[2].tags = <<Tag("MySQL", "green"), Tag("Docker", "green")>>
    /\ guides[3].tags = <<>>

\* C4: GET /guides/latest with limit=0 answers the empty sequence, whatever
\* the store holds.
C4_LimitZeroEmpty ==
    (response.op = "latest" /\ response.given /\ response.limit = 0)
        => response.body = <<>>

\* C5: for N >= 1, GET /guides/latest with limit=N answers at most N guides
\* of the store, none of the others is newer than any of them, and they
\* come with created_at non-increasing; without a limit, N is 2.
C5_LatestNewestFirst ==
    (response.op = "latest" /\ response.limit >= 1) =>
        LET body == response.body
            n == Len(body)
            ids == {body[k]._id : k \in 1..n}
        IN  /\ n <= response.limit
            /\ n = Min(response.limit, Len(guides))
            /\ \A k \in 1..n : \E i \in 1..Len(guides) : body[k] = WithId(guides[i])
            /\ Cardinality(ids) = n
            /\ \A k \in 1..(n - 1) : body[k].created_at >= body[k + 1].created_at
            /\ \A i \in 1..Len(guides) : guides[i]._id \notin ids =>
                   \A k \in 1..n : guides[i].created_at <= body[k].created_at
            /\ ~response.given => response.limit = DefaultLimit

C5_Witness ==
    /\ response.op = "latest"
    /\ ~response.given
    /\ Len(guides) = 3
    /\ guides[1].created_at = 0 /\ guides[2].created_at = 2 /\ guides[3].created_at = 1
    /\ Len(response.body) = 2
    /\ response.body[1]._id = guides[2]._id
    /\ response.body[2]._id = guides[3]._id

\* C6: GET /categories answers one entry per stored category, in order, and
\* the guide_count of each is the number of guides whose category_id equals
\* the id of the entry (0 when no guide refers to it).
C6_GuideCountPerCategory ==
    response.op = "categories" =>
        LET body == response.body
        IN  /\ Len(body) = Len(categories)
            /\ \A k \in 1..Len(body) :
                  /\ body[k].id = Str(categories[k]._id)
                  /\ body[k].name = categories[k].name
                  /\ body[k].guide_count =
                        Cardinality({i \in 1..Len(guides) :
                                        /\ "category_id" \in DOMAIN guides[i]
                                        /\ guides[i].category_id = body[k].id})

C6_Witness ==
    /\ response.op = "categories"
    /\ Len(response.body) = 2
    /\ response.body[1].guide_count = 2
    /\ response.body[2].guide_count = 0
    /\ \E i \in 1..Len(guides) :
          /\ "category_id" \in DOMAIN guides[i]
          /\ guides[i].category_id = categories[2]._id

\* C7: GET /guides/featured answers 404 exactly when no guide of the store
\* has featured = true, and otherwise answers a guide of the store that has.
C7_FeaturedOr404 ==
    response.op = "featured" =>
        /\ response.status = 404 <=> ~\E i \in 1..Len(guides) : guides[i].featured
        /\ response.status # 404 =>
              /\ response.status = 200
              /\ \E i \in 1..Len(guides) :
                    guides[i].featured /\ response.body = WithId(guides[i])

C7_Witness ==
    /\ response.op = "featured"
    /\ response.status = 200
    /\ Len(guides) = 3
    /\ ~guides[1].featured /\ guides[2].featured /\ guides[3].featured
    /\ response.body._id = guides[2]._id

\* C8: a subscribe request with a malformed email is answered with a
\* validation error (422) without any store call, and no subscriber record
\* comes of it.
C8_MalformedEmailNoStoreCall ==
    /\ \A r \in 1..Len(requests) :
          ~EmailStrValid(requests[r].email) =>
              /\ requests[r].pc = "done"
              /\ requests[r].status = 422
              /\ requests[r].calls = <<>>
    /\ \A i \in 1..Len(subscribers) : EmailStrValid(subscribers[i].email)
    /\ Len(subscribers) = Cardinality({r \in 1..Len(requests) : requests[r].status = 201})

C8_Witness ==
    /\ Len(subscribers) = 1
    /\ Len(requests) = 2
    /\ requests[1].status = 201
    /\ ~EmailStrValid(requests[2].email)
    /\ requests[2].status = 422

\* C9: after startup has seeded an empty store (no startup hook having run
\* while another was running), GET /stats answers {guides: 2, categories: 3,
\* technologies: 5}, GET /guides/featured answers the Nextcloud guide, and
\* GET /categories answers three categories, each with guide_count 0.
C9_SeededStoreAnswers ==
    ~overlap =>
        /\ response.op = "stats" =>
              response.body = [guides |-> 2, categories |-> 3, technologies |-> 5]
        /\ response.op = "featured" =>
              /\ response.status = 200
              /\ response.body.title = "Nextcloud mit Redis & MySQL"
              /\ response.body.featured
        /\ response.op = "categories" =>
              /\ Len(response.body) = 3
              /\ \A k \in 1..3 : response.body[k].guide_count = 0

C9_Witness ==
    /\ ~overlap
    /\ \A p \in Procs : proc[p] = "up"
    /\ response.op = "stats"
    /\ response.body.technologies = 5
    /\ Len(guides) = 2
    /\ Len(categories) = 3

\* C10: when the startup hooks run one after the other, a hook changes a
\* collection only when it is empty, and then by inserting the seed (two
\* guides, three categories); once the first hook is over no later hook and
\* no request changes guides or categories; and no step of a hook changes
\* the subscribers.
C10_StartupIdempotent ==
    [][ /\ proc' # proc => subscribers' = subscribers
        /\ ~overlap' =>
            /\ guides # <<>> => guides' = guides
            /\ categories # <<>> => categories' = categories
            /\ guides' # guides =>
                  /\ \E p \in Procs :
                        proc[p] = "insert_guides" /\ proc'[p] = "count_categories"
                  /\ [i \in 1..Len(guides') |-> guides'[i].title]
                        = <<"Nextcloud mit Redis & MySQL", "Sicherheit mit Fail2Ban">>
            /\ categories' # categories =>
                  /\ \E p \in Procs :
                        proc[p] = "insert_categories" /\ proc'[p] = "up"
                  /\ [i \in 1..Len(categories') |-> categories'[i].name]
                        = <<"Cloud & Storage", "Datenbanken", "Container">>
            /\ \A p \in Procs :
                  /\ (proc[p] = "idle" /\ proc'[p] # "idle")
                        => (proc'[p] = "build_guides" <=> guides = <<>>)
                  /\ (proc[p] = "insert_guides" /\ proc'[p] # "insert_guides")
                        => Len(guides') = 2
                  /\ (proc[p] = "count_categories" /\ proc'[p] # "count_categories")
                        => (proc'[p] = "insert_categories" <=> categories = <<>>)
                  /\ (proc[p] = "insert_categories" /\ proc'[p] # "insert_categories")
                        => Len(categories') = 3
            /\ Started => (guides' = guides /\ categories' = categories)
      ]_vars

C10_Witness ==
    /\ ~overlap
    /\ \E p, q \in Procs : proc[p] = "up" /\ proc[q] = "count_categories"
    /\ Len(guides) = 1
    /\ Len(categories) = 3
    /\ Len(subscribers) >= 1

====
